---- MODULE Spec2Model ----
(***************************************************************************)
(* Model of src/update.py: the Table refresher (mode resolution, fetch,    *)
(* transform, write) and Dataset.update_tables, together with the parts of *)
(* the collaborators the code observes: the S3 object listing, the local   *)
(* export file, the Nasdaq Data Link client and awswrangler's to_parquet.  *)
(* Strings that the code takes apart or compares by prefix (table names,   *)
(* S3 keys) are sequences of tokens; "/" is its own token.                 *)
(***************************************************************************)
EXTENDS Integers, Sequences, FiniteSets, TLC

VARIABLES
    config,     \* the Dataset dict: sequence (declaration order) of table metadata
    loaded,     \* the metadata as yaml.safe_load returned it (never assigned again)
    store,      \* the keys of the objects in the S3 bucket
    files,      \* the local files of the working directory
    pc,         \* position of the update_tables loop
    idx,        \* index of the table the loop is at
    table,      \* the fields of the current Table instance
    asof,       \* the as_of_date argument of the running update_tables call
    runs,       \* number of update_tables calls made so far
    calls,      \* the collaborator calls issued during the current update_tables call
    outcome,    \* per table of the current call: how its loop iteration ended
    trace,      \* per table of the current call: the stages run, with their success
    modes,      \* per table: the modes of its successful writes, over all calls
    prev,       \* the Table instance as it was when its last _apply_transforms began
    apikey      \* os.environ.get('NASDAQ_DATA_LINK_API_KEY')

vars == <<config, loaded, store, files, pc, idx, table, asof, runs, calls, outcome, trace, modes,
          prev, apikey>>

(***************************************************************************)
(* Bounds                                                                  *)
(***************************************************************************)
MaxRuns == 2        \* update_tables calls on the same Dataset object
MaxTables == 2      \* tables in the specification file
MaxOps == 3         \* refresh and _apply_transforms calls made on one Table held by a caller

(***************************************************************************)
(* Module constants of update.py                                           *)
(***************************************************************************)
AWS_BUCKET == <<"bucket">>
AWS_BUCKET_DIR == <<"nasdaq">>
AWS_COMPRESSION_TYPE == "gzip"
DATETIME == "datetime64[ns]"

Slash == "/"

(***************************************************************************)
(* String helpers                                                          *)
(***************************************************************************)
\* str.startswith, which is what the Prefix argument of list_objects selects by
IsPrefix(p, s) ==
    /\ Len(p) <= Len(s)
    /\ SubSeq(s, 1, Len(p)) = p

RECURSIVE SplitAcc(_, _, _)
SplitAcc(s, cur, acc) ==
    IF s = <<>> THEN Append(acc, cur)
    ELSE IF Head(s) = Slash THEN SplitAcc(Tail(s), <<>>, Append(acc, cur))
    ELSE SplitAcc(Tail(s), Append(cur, Head(s)), acc)

\* str.split('/')
Split(s) == SplitAcc(s, <<>>, <<>>)

\* str.replace('/', '.')
ReplaceSlash(s) == [k \in 1..Len(s) |-> IF s[k] = Slash THEN "." ELSE s[k]]

Range(f) == {f[k] : k \in DOMAIN f}

\* list.remove(x): drops the first occurrence of x
Remove(l, x) ==
    LET k == CHOOSE j \in 1..Len(l) : l[j] = x /\ \A h \in 1..(j - 1) : l[h] # x
    IN  SubSeq(l, 1, k - 1) \o SubSeq(l, k + 1, Len(l))

(***************************************************************************)
(* The specification file: table name -> metadata                          *)
(***************************************************************************)
DATASET_NAME == <<"DS">>

StdSchema == << <<"date", DATETIME>>, <<"id", "int64">> >>

TableSpecs == {
    [name |-> <<"T", "1">>,      update_field |-> "updated_at",
     partition_cols |-> <<"date">>,       schema |-> StdSchema],
    [name |-> <<"T", "1", "0">>, update_field |-> "updated_at",
     partition_cols |-> <<"id", "date">>, schema |-> StdSchema],
    [name |-> <<"T", "2">>,      update_field |-> "",
     partition_cols |-> <<>>,             schema |-> StdSchema],
    [name |-> <<"T", "3">>,      update_field |-> "",
     partition_cols |-> <<"date">>,       schema |-> StdSchema] }

\* a YAML mapping has distinct keys, kept in declaration order
Datasets ==
    {d \in UNION {[1..n -> TableSpecs] : n \in 1..MaxTables} :
        \A a, b \in DOMAIN d : a # b => d[a].name # d[b].name}

Dates == {<<2024, 3, 1>>}

(***************************************************************************)
(* Row-sets.  A frame maps a column name to its cell (one row); a cell     *)
(* carries the pandas dtype and the value: a calendar date with the text   *)
(* format it is written in, or an integer.                                 *)
(***************************************************************************)
DateText(fmt, y, m, d) == [t |-> "object", fmt |-> fmt, y |-> y, m |-> m, d |-> d, n |-> 0]
Timestamp(y, m, d)     == [t |-> DATETIME, fmt |-> "", y |-> y, m |-> m, d |-> d, n |-> 0]
IntCell(n)             == [t |-> "int64", fmt |-> "", y |-> 0, m |-> 0, d |-> 0, n |-> n]
NumText(n)             == [t |-> "object", fmt |-> "num", y |-> 0, m |-> 0, d |-> 0, n |-> n]

Frames == {
    [c \in {"date", "id"} |-> IF c = "date" THEN DateText("iso", 2024, 3, 1) ELSE IntCell(7)],
    [c \in {"date", "id"} |-> IF c = "date" THEN DateText("us", 2024, 3, 1) ELSE NumText(7)],
    [c \in {"date", "id"} |-> IF c = "date" THEN DateText("junk", 0, 0, 0) ELSE IntCell(7)] }

NoData == <<>>

\* Series.astype(dtype) succeeds
CastOK(cell, dtype) ==
    CASE dtype = DATETIME /\ cell.t = DATETIME -> TRUE
      [] dtype = DATETIME /\ cell.t = "object" -> cell.fmt \in {"iso", "us"}
      [] dtype = DATETIME /\ cell.t = "int64"  -> TRUE
      [] dtype = "int64"  /\ cell.t = "int64"  -> TRUE
      [] dtype = "int64"  /\ cell.t = "object" -> cell.fmt = "num"
      [] OTHER -> FALSE

\* Series.astype(dtype)
Cast(cell, dtype) ==
    CASE dtype = DATETIME /\ cell.t = DATETIME -> cell
      [] dtype = DATETIME /\ cell.t = "object" -> Timestamp(cell.y, cell.m, cell.d)
      [] dtype = DATETIME /\ cell.t = "int64"  -> Timestamp(1970, 1, 1)
      [] dtype = "int64"  /\ cell.t = "int64"  -> cell
      [] dtype = "int64"  /\ cell.t = "object" -> IntCell(cell.n)

\* Series.dt.strftime('%Y-%m-%d')
Strftime(cell) == DateText("iso", cell.y, cell.m, cell.d)

(***************************************************************************)
(* Table                                                                   *)
(***************************************************************************)
\* S3Key with the file named after the first segment of the name
S3Key_FirstSegment(name, update_field) ==
    AWS_BUCKET_DIR \o <<Slash>> \o name \o
        (IF update_field = "" THEN <<Slash>> \o Split(name)[1] \o <<".parquet">> ELSE <<>>)

\* Table.__post_init__: self._s3_key
S3Key(name, update_field) ==
    AWS_BUCKET_DIR \o <<Slash>> \o name \o
        (IF update_field = "" THEN <<Slash>> \o Split(name)[2] \o <<".parquet">> ELSE <<>>)

\* name.split('/')[1] exists (no IndexError) whenever it is evaluated
S3KeyOK(name, update_field) == update_field # "" \/ Len(Split(name)) >= 2

\* s3_client.list_objects(Bucket, Prefix, MaxKeys=1): 'Contents' in response
HasContents(objects, prefix) == \E o \in objects : IsPrefix(prefix, o)

\* ResolveMode with the two outcomes of the existence check swapped
ResolveMode_Swapped(update_field, objects, key) ==
    IF update_field # ""
    THEN IF HasContents(objects, key) THEN "overwrite" ELSE "overwrite_partitions"
    ELSE "overwrite"

\* Table.__post_init__: self._refresh_mode, given that list_objects answered
ResolveMode(update_field, objects, key) ==
    IF update_field # ""
    THEN IF HasContents(objects, key) THEN "overwrite_partitions" ELSE "overwrite"
    ELSE "overwrite"

\* Table._get_ndl_data: the branch that asks for the rows of one date
FetchesIncrement(refresh_mode) == refresh_mode \in {"append", "overwrite_partitions"}

\* Table._get_ndl_data: the name of the local export file
ExportFileName(name) == ReplaceSlash(name) \o <<".zip">>

\* RemoveExport without the finally clause
RemoveExport_Kept(fs, file_name) == fs

\* Table._get_ndl_data: the finally clause
RemoveExport(fs, file_name) == IF file_name \in fs THEN fs \ {file_name} ELSE fs

\* the path argument of to_parquet
S3Path(key) == <<"s3://">> \o AWS_BUCKET \o <<Slash>> \o key

\* TransformColumn with month and day taken from each other's field
TransformColumn_MonthDay(st, column, dtype) ==
    IF ~st.ok THEN st
    ELSE IF st.pcols # <<>>
    THEN IF column \in Range(st.pcols) /\ dtype = DATETIME
         THEN IF column \notin DOMAIN st.data \/ ~CastOK(st.data[column], dtype)
              THEN [st EXCEPT !.ok = FALSE]
              ELSE LET ts == Cast(st.data[column], dtype)
                       kept == (DOMAIN st.data \cup {"yyyy", "mm", "dd"}) \ {column}
                   IN  [ok      |-> TRUE,
                        data    |-> [c \in kept |->
                                       CASE c = "dd"   -> IntCell(ts.m)
                                         [] c = "mm"   -> IntCell(ts.d)
                                         [] c = "yyyy" -> IntCell(ts.y)
                                         [] OTHER      -> st.data[c]],
                        meta    |-> IF st.aliased THEN Remove(st.meta, column) ELSE st.meta,
                        pcols   |-> <<"yyyy", "mm", "dd">>,
                        aliased |-> FALSE]
         ELSE st
    ELSE IF column \notin DOMAIN st.data \/ ~CastOK(st.data[column], dtype)
         THEN [st EXCEPT !.ok = FALSE]
         ELSE IF dtype = DATETIME
              THEN [st EXCEPT !.data[column] = Strftime(Cast(st.data[column], dtype))]
              ELSE [st EXCEPT !.data[column] = Cast(st.data[column], dtype)]

\* TransformColumn without the assignment of the new partition list
TransformColumn_KeepRest(st, column, dtype) ==
    IF ~st.ok THEN st
    ELSE IF st.pcols # <<>>
    THEN IF column \in Range(st.pcols) /\ dtype = DATETIME
         THEN IF column \notin DOMAIN st.data \/ ~CastOK(st.data[column], dtype)
              THEN [st EXCEPT !.ok = FALSE]
              ELSE LET ts == Cast(st.data[column], dtype)
                       kept == (DOMAIN st.data \cup {"yyyy", "mm", "dd"}) \ {column}
                   IN  [ok      |-> TRUE,
                        data    |-> [c \in kept |->
                                       CASE c = "dd"   -> IntCell(ts.d)
                                         [] c = "mm"   -> IntCell(ts.m)
                                         [] c = "yyyy" -> IntCell(ts.y)
                                         [] OTHER      -> st.data[c]],
                        meta    |-> IF st.aliased THEN Remove(st.meta, column) ELSE st.meta,
                        pcols   |-> Remove(st.pcols, column),
                        aliased |-> FALSE]
         ELSE st
    ELSE IF column \notin DOMAIN st.data \/ ~CastOK(st.data[column], dtype)
         THEN [st EXCEPT !.ok = FALSE]
         ELSE IF dtype = DATETIME
              THEN [st EXCEPT !.data[column] = Strftime(Cast(st.data[column], dtype))]
              ELSE [st EXCEPT !.data[column] = Cast(st.data[column], dtype)]

\* Table._apply_transforms: the body of the loop for one schema item.
\* st.pcols is self.partition_cols, st.aliased tells whether it still is the
\* list object held by the Dataset's metadata, st.meta is that list.
TransformColumn(st, column, dtype) ==
    IF ~st.ok THEN st
    ELSE IF st.pcols # <<>>
    THEN IF column \in Range(st.pcols) /\ dtype = DATETIME
         THEN IF column \notin DOMAIN st.data \/ ~CastOK(st.data[column], dtype)
              THEN [st EXCEPT !.ok = FALSE]
              ELSE LET ts == Cast(st.data[column], dtype)
                       kept == (DOMAIN st.data \cup {"yyyy", "mm", "dd"}) \ {column}
                   IN  [ok      |-> TRUE,
                        data    |-> [c \in kept |->
                                       CASE c = "dd"   -> IntCell(ts.d)
                                         [] c = "mm"   -> IntCell(ts.m)
                                         [] c = "yyyy" -> IntCell(ts.y)
                                         [] OTHER      -> st.data[c]],
                        meta    |-> IF st.aliased THEN Remove(st.meta, column) ELSE st.meta,
                        pcols   |-> <<"yyyy", "mm", "dd">>,
                        aliased |-> FALSE]
         ELSE st
    ELSE IF column \notin DOMAIN st.data \/ ~CastOK(st.data[column], dtype)
         THEN [st EXCEPT !.ok = FALSE]
         ELSE IF dtype = DATETIME
              THEN [st EXCEPT !.data[column] = Strftime(Cast(st.data[column], dtype))]
              ELSE [st EXCEPT !.data[column] = Cast(st.data[column], dtype)]

RECURSIVE ApplyTransforms(_, _)
\* Table._apply_transforms: for column, dtype in self.schema.items()
ApplyTransforms(st, schema) ==
    IF schema = <<>> THEN st
    ELSE ApplyTransforms(TransformColumn(st, Head(schema)[1], Head(schema)[2]), Tail(schema))

\* PutKwargs with the mode written as the literal 'overwrite'
PutKwargs_FixedMode(t) ==
    [keys  |-> {"df", "path", "index", "compression"} \cup
               (IF t.update_field # ""
                THEN {"dataset", "mode", "partition_cols", "concurrent_partitioning"}
                ELSE {}),
     df    |-> t.data,
     path  |-> S3Path(t.s3_key),
     index |-> FALSE,
     compression |-> AWS_COMPRESSION_TYPE,
     dataset |-> t.update_field # "",
     mode  |-> IF t.update_field # "" THEN "overwrite" ELSE "",
     partition_cols |-> IF t.update_field # "" THEN t.partition_cols ELSE <<>>,
     concurrent_partitioning |-> t.update_field # ""]

\* PutKwargs with the mode the comments speak of, 'append'
PutKwargs_AppendMode(t) ==
    [keys  |-> {"df", "path", "index", "compression"} \cup
               (IF t.update_field # ""
                THEN {"dataset", "mode", "partition_cols", "concurrent_partitioning"}
                ELSE {}),
     df    |-> t.data,
     path  |-> S3Path(t.s3_key),
     index |-> FALSE,
     compression |-> AWS_COMPRESSION_TYPE,
     dataset |-> t.update_field # "",
     mode  |-> IF t.update_field # "" THEN "append" ELSE "",
     partition_cols |-> IF t.update_field # "" THEN t.partition_cols ELSE <<>>,
     concurrent_partitioning |-> t.update_field # ""]

\* Table._put_to_aws: the keyword arguments handed to wrangler.s3.to_parquet
PutKwargs(t) ==
    [keys  |-> {"df", "path", "index", "compression"} \cup
               (IF t.update_field # ""
                THEN {"dataset", "mode", "partition_cols", "concurrent_partitioning"}
                ELSE {}),
     df    |-> t.data,
     path  |-> S3Path(t.s3_key),
     index |-> FALSE,
     compression |-> AWS_COMPRESSION_TYPE,
     dataset |-> t.update_field # "",
     mode  |-> IF t.update_field # "" THEN t.refresh_mode ELSE "",
     partition_cols |-> IF t.update_field # "" THEN t.partition_cols ELSE <<>>,
     concurrent_partitioning |-> t.update_field # ""]

\* wrangler.s3.to_parquet, when it succeeds: the objects of the bucket afterwards.
\* A dataset write puts its files under path/ (mode overwrite first deletes
\* what is under path/); a plain write puts one object at path.
ToParquet(objects, kw) ==
    LET key == SubSeq(kw.path, Len(<<"s3://">> \o AWS_BUCKET \o <<Slash>>) + 1, Len(kw.path))
        dir == key \o <<Slash>>
    IN  IF "dataset" \in kw.keys /\ kw.dataset
        THEN IF kw.mode = "overwrite"
             THEN {o \in objects : ~IsPrefix(dir, o)} \cup {dir \o <<"part.parquet">>}
             ELSE objects \cup {dir \o <<"part.parquet">>}
        ELSE objects \cup {key}

(***************************************************************************)
(* State                                                                   *)
(***************************************************************************)
NoTable ==
    [live |-> FALSE, cfg |-> 0, name |-> <<>>, update_field |-> "", partition_cols |-> <<>>,
     aliased |-> FALSE, schema |-> <<>>, s3_key |-> <<>>, refresh_mode |-> "", data |-> NoData]

\* objects the bucket may hold before the job ever ran
SeedObjects == {
    AWS_BUCKET_DIR \o <<Slash>> \o DATASET_NAME \o <<Slash, "T", "1", Slash, "part.parquet">>,
    AWS_BUCKET_DIR \o <<Slash>> \o DATASET_NAME \o <<Slash, "T", "1", "0", Slash, "part.parquet">>,
    AWS_BUCKET_DIR \o <<Slash>> \o DATASET_NAME \o <<Slash, "T", "2", Slash, "T", "2", ".parquet">> }

Call(op, tbl, ok, arg) == [op |-> op, tbl |-> tbl, ok |-> ok, arg |-> arg]

\* Dataset.__init__ has run: the metadata is loaded, nothing else has happened
Init ==
    /\ config \in Datasets
    /\ loaded = config
    /\ store \in SUBSET SeedObjects
    /\ files = {}
    /\ pc = "idle"
    /\ idx = 0
    /\ table = NoTable
    /\ asof = <<>>
    /\ runs = 0
    /\ calls = <<>>
    /\ outcome = [i \in DOMAIN config |-> "none"]
    /\ trace = [i \in DOMAIN config |-> <<>>]
    /\ modes = [i \in DOMAIN config |-> <<>>]
    /\ prev = NoTable
    /\ apikey = "key"

\* Catches with a handler that lets a transform error through
Catches_NotTransform(exc) == exc \in {"construct", "fetch", "write"}

\* Dataset.update_tables: `except Exception` catches what the body raises
Catches(exc) == exc \in {"construct", "fetch", "transform", "write"}

\* RefreshNext with the write issued right after the fetch
RefreshNext_SkipTransform(stage) ==
    CASE stage = "construct" -> "fetch"
      [] stage = "fetch"     -> "write"
      [] stage = "transform" -> "write"
      [] stage = "write"     -> "return"

\* Table.refresh: the stage that runs once `stage` has returned
RefreshNext(stage) ==
    CASE stage = "construct" -> "fetch"
      [] stage = "fetch"     -> "transform"
      [] stage = "transform" -> "write"
      [] stage = "write"     -> "return"

\* ListingRaises with the exception swallowed
ListingRaises_Swallowed(answers) == FALSE

\* Table.__post_init__: `except Exception as e: raise e` around list_objects
ListingRaises(answers) == ~answers

\* EndIteration with the loop stepping over the table after the current one
EndIteration_SkipsNext(r) ==
    /\ outcome' = [outcome EXCEPT ![idx] = r]
    /\ table' = NoTable
    /\ IF r # "ok" /\ ~Catches(r)
       THEN /\ pc' = "raised"
            /\ idx' = idx
       ELSE /\ idx' = idx + 2
            /\ pc' = IF idx + 2 > Len(config) THEN "idle" ELSE "construct"

\* Dataset.update_tables: the iteration for table idx has ended with result r
\* (r = "ok", or the stage that raised); the for loop moves on or returns
EndIteration(r) ==
    /\ outcome' = [outcome EXCEPT ![idx] = r]
    /\ table' = NoTable
    /\ IF r # "ok" /\ ~Catches(r)
       THEN /\ pc' = "raised"
            /\ idx' = idx
       ELSE /\ idx' = idx + 1
            /\ pc' = IF idx + 1 > Len(config) THEN "idle" ELSE "construct"

\* a stage of the current table raises: the exception leaves Table.refresh
StageRaises(stage) ==
    /\ trace' = [trace EXCEPT ![idx] = Append(@, [stage |-> stage, ok |-> FALSE])]
    /\ EndIteration(stage)

\* a stage of the current table returns, leaving the instance as t
StageReturns(stage, t) ==
    /\ trace' = [trace EXCEPT ![idx] = Append(@, [stage |-> stage, ok |-> TRUE])]
    /\ IF RefreshNext(stage) = "return"
       THEN EndIteration("ok")
       ELSE /\ table' = t
            /\ pc' = RefreshNext(stage)
            /\ UNCHANGED <<idx, outcome>>

\* Dataset.update_tables is called
UpdateTables ==
    /\ pc = "idle"
    /\ runs < MaxRuns
    /\ \E date \in Dates : asof' = date
    /\ runs' = runs + 1
    /\ calls' = <<>>
    /\ outcome' = [i \in DOMAIN config |-> "pending"]
    /\ trace' = [i \in DOMAIN config |-> <<>>]
    /\ idx' = 1
    /\ pc' = "construct"
    /\ table' = NoTable
    /\ UNCHANGED <<config, loaded, store, files, modes, prev, apikey>>

\* the Table instance __post_init__ leaves behind
NewTable(k, md, name, key, objects) ==
    [live |-> TRUE, cfg |-> k, name |-> name, update_field |-> md.update_field,
     partition_cols |-> md.partition_cols, aliased |-> TRUE, schema |-> md.schema,
     s3_key |-> key, refresh_mode |-> ResolveMode(md.update_field, objects, key),
     data |-> NoData]

\* Table(name=..., update_field=..., partition_cols=..., schema=...): __post_init__
Construct ==
    /\ pc = "construct"
    /\ LET md   == config[idx]
           name == DATASET_NAME \o <<Slash>> \o md.name
           key  == S3Key(name, md.update_field)
       IN  IF ~S3KeyOK(name, md.update_field)
           THEN /\ StageRaises("construct")
                /\ UNCHANGED calls
           ELSE IF md.update_field # ""
           THEN \E answers \in BOOLEAN :
                  /\ calls' = Append(calls, Call("list_objects", idx, answers,
                                                 [bucket |-> AWS_BUCKET, prefix |-> key,
                                                  max_keys |-> 1]))
                  /\ IF ListingRaises(answers)
                     THEN StageRaises("construct")
                     ELSE StageReturns("construct",
                              NewTable(idx, md, name, key, IF answers THEN store ELSE {}))
           ELSE /\ StageReturns("construct", NewTable(idx, md, name, key, store))
                /\ UNCHANGED calls
    /\ UNCHANGED <<config, loaded, store, files, asof, runs, modes, prev, apikey>>

\* what the remote calls of one fetch may do
FetchResults == {"rows", "raise"}
ExportResults == {"rows", "export_raise", "export_raise_partial", "parse_raise"}

\* Table._get_ndl_data: what the remote calls of the branch taken may do
FetchOutcomes(t) == IF FetchesIncrement(t.refresh_mode) THEN FetchResults ELSE ExportResults

\* Table._get_ndl_data: the local files while the export branch runs
ExportWritten(fs, t, r) ==
    IF r = "export_raise" THEN fs ELSE fs \cup {ExportFileName(t.name)}

\* Table._get_ndl_data: the collaborator calls it makes, for table i and date
FetchCalls(fs, t, i, r, date) ==
    IF FetchesIncrement(t.refresh_mode)
    THEN <<Call("get_table", i, r = "rows",
                [name |-> t.name, paginate |-> TRUE,
                 field |-> t.update_field, value |-> date])>>
    ELSE <<Call("export_table", i, r \notin {"export_raise", "export_raise_partial"},
                [name |-> t.name, filename |-> ExportFileName(t.name),
                 created |-> ExportFileName(t.name) \in ExportWritten(fs, t, r)])>> \o
         (IF r \notin {"export_raise", "export_raise_partial"}
          THEN <<Call("read_csv", i, r = "rows", [filename |-> ExportFileName(t.name)])>>
          ELSE <<>>)

\* Table._get_ndl_data: the local files when it has ended
FetchFiles(fs, t, r) ==
    IF FetchesIncrement(t.refresh_mode)
    THEN fs
    ELSE RemoveExport(ExportWritten(fs, t, r), ExportFileName(t.name))

\* Table._get_ndl_data
GetNdlData ==
    /\ pc = "fetch"
    /\ \E r \in FetchOutcomes(table), frame \in Frames :
         /\ calls' = calls \o FetchCalls(files, table, idx, r, asof)
         /\ files' = FetchFiles(files, table, r)
         /\ IF r = "rows"
            THEN StageReturns("fetch", [table EXCEPT !.data = frame])
            ELSE StageRaises("fetch")
    /\ UNCHANGED <<config, loaded, store, asof, runs, modes, prev, apikey>>

\* Table._apply_transforms
Transform ==
    /\ pc = "transform"
    /\ LET st == ApplyTransforms([ok |-> TRUE, data |-> table.data,
                                  meta |-> config[table.cfg].partition_cols,
                                  pcols |-> table.partition_cols,
                                  aliased |-> table.aliased], table.schema)
       IN  /\ config' = [config EXCEPT ![table.cfg].partition_cols = st.meta]
           /\ prev' = IF st.ok THEN table ELSE NoTable
           /\ IF st.ok
              THEN StageReturns("transform",
                       [table EXCEPT !.data = st.data, !.partition_cols = st.pcols,
                                     !.aliased = st.aliased])
              ELSE StageRaises("transform")
    /\ UNCHANGED <<loaded, store, files, asof, runs, calls, modes, apikey>>

\* Table._put_to_aws
PutToAws ==
    /\ pc = "write"
    /\ \E ok \in BOOLEAN :
         /\ calls' = Append(calls, Call("to_parquet", idx, ok, PutKwargs(table)))
         /\ IF ok
            THEN /\ store' = ToParquet(store, PutKwargs(table))
                 /\ modes' = [modes EXCEPT ![idx] =
                                 Append(@, [mode |-> PutKwargs(table).mode,
                                            found |-> \E o \in store : IsPrefix(table.s3_key, o)])]
                 /\ StageReturns("write", table)
            ELSE /\ UNCHANGED <<store, modes>>
                 /\ StageRaises("write")
    /\ prev' = NoTable
    /\ UNCHANGED <<config, loaded, files, asof, runs, apikey>>

Next ==
    \/ UpdateTables
    \/ Construct
    \/ GetNdlData
    \/ Transform
    \/ PutToAws

Spec == Init /\ [][Next]_vars

(***************************************************************************)
(* The script's entry point                                                *)
(***************************************************************************)
\* what os.environ.get('NASDAQ_DATA_LINK_API_KEY') may give: None, '', a key
ApiKeys == {"<unset>", "", "key"}

\* AssertFails with the pre-check compiled away
AssertFails_Never(key) == FALSE

\* __main__: `assert os.environ.get('NASDAQ_DATA_LINK_API_KEY'), ...` raises
AssertFails(key) == key \in {"<unset>", ""}

\* the interpreter has started the script; nothing is loaded yet
InitMain ==
    /\ apikey \in ApiKeys
    /\ config = <<>>
    /\ loaded = <<>>
    /\ store \in SUBSET SeedObjects
    /\ files = {}
    /\ pc = "start"
    /\ idx = 0
    /\ table = NoTable
    /\ asof = <<>>
    /\ runs = 0
    /\ calls = <<>>
    /\ outcome = <<>>
    /\ trace = <<>>
    /\ modes = <<>>
    /\ prev = NoTable

\* __main__ up to Dataset(file_path=config_file_path): the pre-check, then the
\* specification file is loaded
Main ==
    /\ pc = "start"
    /\ IF AssertFails(apikey)
       THEN /\ pc' = "exited"
            /\ UNCHANGED <<config, loaded, outcome, trace, modes>>
       ELSE /\ config' \in Datasets
            /\ loaded' = config'
            /\ outcome' = [i \in DOMAIN config' |-> "none"]
            /\ trace' = [i \in DOMAIN config' |-> <<>>]
            /\ modes' = [i \in DOMAIN config' |-> <<>>]
            /\ pc' = "idle"
    /\ UNCHANGED <<store, files, idx, table, asof, runs, calls, prev, apikey>>

NextMain ==
    \/ Main
    \/ UpdateTables
    \/ Construct
    \/ GetNdlData
    \/ Transform
    \/ PutToAws

SpecMain == InitMain /\ [][NextMain]_vars

(***************************************************************************)
(* A Table built and driven by a caller of its own (as the unit test does): *)
(* the instance stays alive between the calls made on it.                  *)
(***************************************************************************)
WideSchema == << <<"date", DATETIME>>, <<"filed", DATETIME>>, <<"id", "int64">> >>

\* the metadata a caller may hand to Table(...)
DirectSpecs == TableSpecs \cup {
    [name |-> <<"T", "4">>, update_field |-> "updated_at",
     partition_cols |-> <<"filed", "date">>, schema |-> WideSchema],
    [name |-> <<"T", "5">>, update_field |-> "",
     partition_cols |-> <<>>,                schema |-> WideSchema] }

\* the row-sets the remote calls may give such a caller
DirectFrames == {
    [c \in {"date", "id"} |-> IF c = "date" THEN DateText("us", 2024, 3, 1) ELSE NumText(7)],
    [c \in {"date", "filed", "id"} |->
        CASE c = "date"  -> DateText("iso", 2024, 3, 1)
          [] c = "filed" -> DateText("us", 2023, 12, 31)
          [] OTHER       -> IntCell(7)],
    [c \in {"date", "filed", "id"} |->
        CASE c = "date"  -> Timestamp(2023, 12, 31)
          [] c = "filed" -> DateText("junk", 0, 0, 0)
          [] OTHER       -> NumText(7)] }

\* the caller holds no Table yet
InitTable ==
    /\ apikey = "key"
    /\ config = <<>>
    /\ loaded = <<>>
    /\ store \in SUBSET SeedObjects
    /\ files = {}
    /\ pc = "direct"
    /\ idx = 1
    /\ table = NoTable
    /\ asof = <<>>
    /\ runs = 0
    /\ calls = <<>>
    /\ outcome = <<>>
    /\ trace = <<>>
    /\ modes = <<>>
    /\ prev = NoTable

\* table = Table(name=..., update_field=..., partition_cols=..., schema=...)
TableNew ==
    /\ pc = "direct"
    /\ config = <<>>
    /\ \E md \in DirectSpecs, qualified \in BOOLEAN, answers \in BOOLEAN :
         LET name == IF qualified THEN DATASET_NAME \o <<Slash>> \o md.name ELSE md.name
             key  == S3Key(name, md.update_field)
             listed == md.update_field # "" /\ S3KeyOK(name, md.update_field)
             built  == S3KeyOK(name, md.update_field) /\ ~(listed /\ ListingRaises(answers))
         IN  /\ config' = <<md>>
             /\ loaded' = <<md>>
             /\ calls' = IF listed
                         THEN <<Call("list_objects", 1, answers,
                                     [bucket |-> AWS_BUCKET, prefix |-> key, max_keys |-> 1,
                                      contents |-> answers /\ HasContents(store, key)])>>
                         ELSE <<>>
             /\ table' = IF built THEN NewTable(1, md, name, key, store) ELSE NoTable
             /\ trace' = << <<[stage |-> "construct", ok |-> built]>> >>
             /\ outcome' = <<IF built THEN "none" ELSE "construct">>
             /\ modes' = << <<>> >>
    /\ UNCHANGED <<store, files, pc, idx, asof, runs, prev, apikey>>

\* table.refresh(date), from call to return or raise
TableRefresh ==
    /\ pc = "direct"
    /\ table.live
    /\ runs < MaxOps
    /\ \E date \in Dates, r \in FetchOutcomes(table), frame \in DirectFrames, wok \in BOOLEAN :
         LET fetched == r = "rows"
             t1 == [table EXCEPT !.data = frame]
             st == ApplyTransforms([ok |-> TRUE, data |-> t1.data,
                                    meta |-> config[1].partition_cols,
                                    pcols |-> t1.partition_cols,
                                    aliased |-> t1.aliased], t1.schema)
             t2 == [t1 EXCEPT !.data = st.data, !.partition_cols = st.pcols,
                              !.aliased = st.aliased]
             writes  == fetched /\ st.ok /\ RefreshNext("transform") = "write"
             written == writes /\ wok
         IN  /\ asof' = date
             /\ runs' = runs + 1
             /\ calls' = calls \o FetchCalls(files, table, 1, r, date) \o
                             (IF writes THEN <<Call("to_parquet", 1, wok, PutKwargs(t2))>>
                              ELSE <<>>)
             /\ files' = FetchFiles(files, table, r)
             /\ table' = IF fetched THEN t2 ELSE table
             /\ prev' = IF fetched THEN t1 ELSE prev
             /\ config' = IF fetched THEN [config EXCEPT ![1].partition_cols = st.meta]
                          ELSE config
             /\ store' = IF written THEN ToParquet(store, PutKwargs(t2)) ELSE store
             /\ modes' = IF written
                         THEN [modes EXCEPT ![1] =
                                  Append(@, [mode |-> PutKwargs(t2).mode,
                                             found |-> \E o \in store : IsPrefix(table.s3_key, o)])]
                         ELSE modes
             /\ trace' = [trace EXCEPT ![1] =
                             <<[stage |-> "fetch", ok |-> fetched]>> \o
                             (IF fetched THEN <<[stage |-> "transform", ok |-> st.ok]>> ELSE <<>>) \o
                             (IF writes THEN <<[stage |-> "write", ok |-> wok]>> ELSE <<>>)]
             /\ outcome' = [outcome EXCEPT ![1] =
                               IF ~fetched THEN "fetch"
                               ELSE IF ~st.ok THEN "transform"
                               ELSE IF ~written THEN "write" ELSE "ok"]
    /\ UNCHANGED <<loaded, pc, idx, apikey>>

\* table._apply_transforms(), called on the instance as it stands
TableTransform ==
    /\ pc = "direct"
    /\ table.live
    /\ table.data # NoData
    /\ runs < MaxOps
    /\ LET st == ApplyTransforms([ok |-> TRUE, data |-> table.data,
                                  meta |-> config[1].partition_cols,
                                  pcols |-> table.partition_cols,
                                  aliased |-> table.aliased], table.schema)
       IN  /\ table' = [table EXCEPT !.data = st.data, !.partition_cols = st.pcols,
                                     !.aliased = st.aliased]
           /\ config' = [config EXCEPT ![1].partition_cols = st.meta]
           /\ trace' = [trace EXCEPT ![1] = Append(@, [stage |-> "transform", ok |-> st.ok])]
           /\ outcome' = [outcome EXCEPT ![1] = IF st.ok THEN "none" ELSE "transform"]
    /\ prev' = table
    /\ runs' = runs + 1
    /\ UNCHANGED <<loaded, store, files, pc, idx, asof, calls, modes, apikey>>

NextTable ==
    \/ TableNew
    \/ TableRefresh
    \/ TableTransform

SpecTable == InitTable /\ [][NextTable]_vars

(***************************************************************************)
(* Properties                                                              *)
(***************************************************************************)
\* the positions in `calls` of the calls of operation op made for table i
CallsOf(i, op) == {k \in DOMAIN calls : calls[k].tbl = i /\ calls[k].op = op}

StageEnded(i, stage) == \E k \in DOMAIN trace[i] : trace[i][k].stage = stage

RunOver == pc = "idle" /\ runs > 0

\* C1: in every refresh of a table with a non-empty update_field, also the
\* first one (no object under its prefix, mode overwrite), the fetch stage
\* issues get_table(name, paginate=True, update_field=as-of date) exactly once
\* and never the bulk export; the write that follows is a dataset write that
\* carries the resolved mode and the partition columns.
C1_IncrementalFetchAlways ==
    \A i \in DOMAIN config :
        config[i].update_field # "" =>
            /\ CallsOf(i, "export_table") = {}
            /\ StageEnded(i, "fetch") =>
                 /\ Cardinality(CallsOf(i, "get_table")) = 1
                 /\ \A k \in CallsOf(i, "get_table") :
                        /\ calls[k].arg.paginate
                        /\ calls[k].arg.field = config[i].update_field
                        /\ calls[k].arg.value = asof
            /\ \A k \in CallsOf(i, "to_parquet") :
                   /\ calls[k].arg.dataset
                   /\ calls[k].arg.mode \in {"overwrite", "overwrite_partitions"}
                   /\ "partition_cols" \in calls[k].arg.keys

C3_FailureIsolation ==
    /\ pc # "raised"
    /\ RunOver =>
         \A i \in DOMAIN config :
             /\ outcome[i] \in {"ok", "construct", "fetch", "transform", "write"}
             /\ StageEnded(i, "construct")
             /\ outcome[i] = "ok" <=> (\E k \in CallsOf(i, "to_parquet") : calls[k].ok)
             /\ outcome[i] = "ok" =>
                    \E o \in store :
                        IsPrefix(AWS_BUCKET_DIR \o <<Slash>> \o DATASET_NAME \o <<Slash>>
                                     \o config[i].name, o)

C3_Witness ==
    /\ RunOver
    /\ \E i, j \in DOMAIN config :
           /\ i < j
           /\ outcome[i] \in {"construct", "fetch", "transform", "write"}
           /\ outcome[j] = "ok"

\* C4: the stages of one table run in the order construct, fetch, transform,
\* write, each at most once; a stage runs only after all earlier ones
\* succeeded; a stage that fails is the last one run and is what the caller
\* sees raised; to_parquet is called at most once and only after fetch and
\* transform succeeded.
C4_StageOrder ==
    \A i \in DOMAIN config :
        LET tr == trace[i]
            order == <<"construct", "fetch", "transform", "write">>
        IN  /\ Len(tr) <= 4
            /\ \A k \in DOMAIN tr :
                   /\ tr[k].stage = order[k]
                   /\ k < Len(tr) => tr[k].ok
            /\ (tr # <<>> /\ ~tr[Len(tr)].ok) => outcome[i] = tr[Len(tr)].stage
            /\ outcome[i] \in {"construct", "fetch", "transform", "write"} =>
                   /\ tr # <<>>
                   /\ ~tr[Len(tr)].ok
                   /\ tr[Len(tr)].stage = outcome[i]
            /\ Cardinality(CallsOf(i, "to_parquet")) <= 1
            /\ CallsOf(i, "to_parquet") # {} =>
                   /\ Len(tr) = 4
                   /\ tr[2].ok
                   /\ tr[3].ok

C4_Witness ==
    \E i \in DOMAIN config :
        /\ Len(trace[i]) = 3
        /\ ~trace[i][3].ok
        /\ outcome[i] = "transform"
        /\ CallsOf(i, "to_parquet") = {}

C6_NoExportFileLeft == files = {}

C6_Witness ==
    \E i \in DOMAIN config :
        /\ StageEnded(i, "fetch")
        /\ outcome[i] = "fetch"
        /\ \E k \in CallsOf(i, "export_table") : ~calls[k].ok /\ calls[k].arg.created

\* C7: a table with an empty update_field is written, when its refresh
\* succeeds, by one plain to_parquet call (only df, path, index and
\* compression are passed) to <bucket dir>/<dataset>/<table>.parquet, the
\* table name occurring once in the path.
C7_SingleFileAtDatasetLevel ==
    \A i \in DOMAIN config :
        (config[i].update_field = "" /\ outcome[i] = "ok") =>
            /\ Cardinality(CallsOf(i, "to_parquet")) = 1
            /\ \A k \in CallsOf(i, "to_parquet") :
                   /\ calls[k].arg.keys = {"df", "path", "index", "compression"}
                   /\ calls[k].arg.path =
                          <<"s3://">> \o AWS_BUCKET \o <<Slash>> \o AWS_BUCKET_DIR \o <<Slash>>
                              \o DATASET_NAME \o <<Slash>> \o config[i].name \o <<".parquet">>

\* the destination key the specification gives table i
ExpectedKey(i) ==
    IF config[i].update_field # ""
    THEN AWS_BUCKET_DIR \o <<Slash>> \o DATASET_NAME \o <<Slash>> \o config[i].name
    ELSE AWS_BUCKET_DIR \o <<Slash>> \o DATASET_NAME \o <<Slash>> \o config[i].name
             \o <<Slash>> \o config[i].name \o <<".parquet">>

C9_ListingFailure ==
    \A k \in DOMAIN calls :
        (calls[k].op = "list_objects" /\ ~calls[k].ok) =>
            LET i == calls[k].tbl
            IN  /\ outcome[i] = "construct"
                /\ trace[i] = <<[stage |-> "construct", ok |-> FALSE]>>
                /\ ~(table.live /\ table.cfg = i)
                /\ \A op \in {"get_table", "export_table", "read_csv", "to_parquet"} :
                       CallsOf(i, op) = {}
                /\ pc # "raised"
                /\ RunOver => \A j \in DOMAIN config : outcome[j] # "pending" /\ trace[j] # <<>>

C9_Witness ==
    /\ RunOver
    /\ \E k \in DOMAIN calls :
           /\ calls[k].op = "list_objects"
           /\ ~calls[k].ok
           /\ \E j \in DOMAIN config : j > calls[k].tbl /\ outcome[j] = "ok"

\* C10: the metadata the Dataset holds (update_field, partition_cols and
\* schema of every table) is at all times what was loaded, so every Table is
\* constructed with the partition_cols of the specification file.
C10_ConfigImmutable ==
    /\ config = loaded
    /\ (table.live /\ StageEnded(table.cfg, "construct") /\ ~StageEnded(table.cfg, "fetch")) =>
           table.partition_cols = loaded[table.cfg].partition_cols

\* C11: when the API credential is absent (unset or empty) the script ends at
\* its pre-check: no specification file is ever loaded, no Table is
\* constructed, update_tables is never called and no listing, fetch or write
\* call is made.
C11_NoCredentialNoWork ==
    apikey \in {"<unset>", ""} =>
        /\ pc \in {"start", "exited"}
        /\ config = <<>>
        /\ loaded = <<>>
        /\ ~table.live
        /\ runs = 0
        /\ calls = <<>>
        /\ files = {}

C11_Witness == apikey = "<unset>" /\ pc = "exited"

\* C12: in every row-set handed to to_parquet, each column named in the
\* schema that is not a datetime-typed partition column of the specification
\* has been converted, whether or not the table has partition columns: a
\* datetime-typed one is a YYYY-MM-DD text, any other has its declared type;
\* and a table whose transform raised has no to_parquet call.
C12_EveryColumnCast ==
    /\ \A k \in DOMAIN calls :
           calls[k].op = "to_parquet" =>
               LET df  == calls[k].arg.df
                   sch == loaded[calls[k].tbl].schema
                   pcs == loaded[calls[k].tbl].partition_cols
               IN  \A j \in DOMAIN sch :
                       ~(sch[j][1] \in Range(pcs) /\ sch[j][2] = DATETIME) =>
                           /\ sch[j][1] \in DOMAIN df
                           /\ IF sch[j][2] = DATETIME
                              THEN df[sch[j][1]].t = "object" /\ df[sch[j][1]].fmt = "iso"
                              ELSE df[sch[j][1]].t = sch[j][2]
    /\ \A i \in DOMAIN config : outcome[i] = "transform" => CallsOf(i, "to_parquet") = {}

\* the stages recorded for the instance end with a transform that succeeded
\* (followed at most by the write of the same refresh)
TransformedOK(tr) ==
    \E k \in DOMAIN tr :
        /\ tr[k] = [stage |-> "transform", ok |-> TRUE]
        /\ \A h \in (k + 1)..Len(tr) : tr[h].stage = "write"

\* the calendar date a cell stands for once cast to datetime
DateOf(cell) == IF cell.t = "int64" THEN <<1970, 1, 1>> ELSE <<cell.y, cell.m, cell.d>>

\* the schema positions of the datetime-typed columns that are in the partition
\* list pcols
DatePartitionItems(schema, pcols) ==
    {j \in DOMAIN schema : schema[j][1] \in Range(pcols) /\ schema[j][2] = DATETIME}

C14_Sequential ==
    /\ \A k, h \in DOMAIN calls : k < h => calls[k].tbl <= calls[h].tbl
    /\ \A i, j \in DOMAIN config :
           (j < i /\ trace[i] # <<>>) => outcome[j] \notin {"none", "pending"}
    /\ \A i \in DOMAIN config :
           (trace[i] # <<>> /\ outcome[i] = "pending") => (i = idx /\ table.live /\ table.cfg = i)
    /\ table.live => (table.cfg = idx /\ outcome[idx] = "pending")
    /\ RunOver => \A i \in DOMAIN config : outcome[i] \notin {"none", "pending"}

C14_Witness ==
    /\ Len(config) >= 2
    /\ outcome[1] = "ok"
    /\ table.live
    /\ table.cfg = 2
    /\ \E k, h \in DOMAIN calls : calls[k].tbl = 1 /\ calls[h].tbl = 2

\* the row-set an instance holds is the result of a successful transform
\* applied to the result of a successful transform
TransformedTwice(tr) ==
    /\ Len(tr) >= 2
    /\ tr[Len(tr)].stage = "transform"
    /\ TransformedOK(SubSeq(tr, 1, Len(tr) - 1))

\* C15: _apply_transforms applied to the instance a second time, right after
\* a transform that succeeded, succeeds and leaves the row-set (columns and
\* values) and the partition-column list exactly as the first left them.
C15_TransformIdempotent ==
    (table.live /\ prev.live /\ TransformedTwice(trace[table.cfg])) =>
        /\ trace[table.cfg][Len(trace[table.cfg])].ok
        /\ table.data = prev.data
        /\ table.partition_cols = prev.partition_cols

C15_Witness ==
    /\ table.live
    /\ prev.live
    /\ TransformedTwice(trace[table.cfg])
    /\ table.partition_cols = <<"yyyy", "mm", "dd">>
    /\ table.data = prev.data

\* C16: an incremental table whose own destination holds no object (no key
\* equal to the table's key or below key/) resolves to overwrite, whatever
\* objects other tables have in the bucket.
C16_OwnDestinationOnly ==
    (table.live /\ table.update_field # "") =>
        ((\A o \in store : o # table.s3_key /\ ~IsPrefix(table.s3_key \o <<Slash>>, o))
             => table.refresh_mode = "overwrite")

\* C17: the mode of a Table instance is the one resolved at construction from
\* the single list_objects answer, whatever refresh calls were made on it
\* since (failed or successful, also one whose write created the destination):
\* list_objects is called at most once per instance and every dataset write of
\* the instance carries that mode.
C17_ModeFixed ==
    table.live =>
        LET listings == CallsOf(1, "list_objects")
        IN  /\ Cardinality(listings) <= 1
            /\ table.update_field = "" => (listings = {} /\ table.refresh_mode = "overwrite")
            /\ table.update_field # "" =>
                   /\ Cardinality(listings) = 1
                   /\ \A k \in listings :
                          table.refresh_mode =
                              IF calls[k].arg.contents THEN "overwrite_partitions" ELSE "overwrite"
            /\ \A k \in CallsOf(1, "to_parquet") :
                   "mode" \in calls[k].arg.keys => calls[k].arg.mode = table.refresh_mode

C17_Witness ==
    /\ table.live
    /\ table.update_field # ""
    /\ table.refresh_mode = "overwrite"
    /\ Cardinality({k \in CallsOf(1, "to_parquet") : calls[k].ok}) >= 2
    /\ \E o \in store : IsPrefix(table.s3_key \o <<Slash>>, o)

====
